---- MODULE Spec2Model ----
(***************************************************************************)
(* Model of lit/networks/interpolation_layer.py: the crop / interpolate /  *)
(* pad geometry of _ZoomNd, Zoom2d and Zoom3d.                             *)
(*                                                                         *)
(* Tensors are modelled by their shapes (the geometry never looks at the   *)
(* values).  A Python float that the code handles is modelled as an exact  *)
(* ratio <<numerator, denominator>>; int(x) is truncation of that ratio.   *)
(***************************************************************************)
EXTENDS Integers, Sequences, FiniteSets, TLC

VARIABLES
    call,           \* arguments of one _calculate_crop_pad call
    plan,           \* what that call returned or raised
    fixcall,        \* arguments of one _fix_scale_factors call
    fixed,          \* what the generator yielded or raised
    N,              \* self._N of the module forward is called on
    crop_position,  \* self._crop_position
    input_tensor,   \* shape of forward's input_tensor: <<B, C, D_1 .. D_N>>
    scale_factors,  \* forward's scale_factors argument
    target_shape,   \* forward's target_shape argument
    rescale,        \* forward's rescale argument
    result          \* what forward returned or raised, NotCalled before

vars == <<call, plan, fixcall, fixed, N, crop_position, input_tensor,
          scale_factors, target_shape, rescale, result>>

planVars == <<call, plan>>
fixVars == <<fixcall, fixed>>
forwardVars == <<N, crop_position, input_tensor, scale_factors, target_shape,
                 rescale, result>>

(***************************************************************************)
(* Bounds of the explored inputs.                                          *)
(***************************************************************************)
MaxSize == 10
MaxScaleNum == 3
MaxScaleDen == 3
MaxBatch == 3
MaxEntries == 3

(***************************************************************************)
(* Exact ratios standing for the floats of the code.                       *)
(***************************************************************************)
RECURSIVE Gcd(_, _)
Gcd(a, b) == IF b = 0 THEN a ELSE Gcd(b, a % b)

Rat(n, d) == <<n, d>>
RatEq(x, y) == x[1] * y[2] = y[1] * x[2]
\* 1 / sf
RatInv(x) == <<x[2], x[1]>>

\* Python int() of the ratio n / d, d > 0: truncation towards zero
IntTrunc(n, d) == IF n >= 0 THEN n \div d ELSE -((-n) \div d)

\* the scale factors tried: reduced ratios n / d
Scales ==
    {s \in (1..MaxScaleNum) \X (1..MaxScaleDen) : Gcd(s[1], s[2]) = 1}

Alignments == {"from_start", "from_end", "mid"}

(***************************************************************************)
(* _ZoomNd._calculate_crop_pad                                             *)
(***************************************************************************)
\* a raise leaves scale_factor[dim] unwritten and returns nothing
\* (out is the local of that name at the time of the raise)
Raised(exc, scale_factor, out) ==
    [status |-> exc, start |-> 0, end |-> 0, scale_factor |-> scale_factor,
     padding |-> <<0, 0>>, interp_target_shape |-> 0, out |-> out,
     branch |-> "none"]

\* the (before, after) weights of the padding branch
PaddingWeights_Swapped(alignment) ==
    IF alignment = "from_end" THEN <<Rat(0, 1), Rat(1, 1)>>
    ELSE IF alignment = "mid" THEN <<Rat(1, 2), Rat(1, 2)>>
    ELSE <<Rat(1, 1), Rat(0, 1)>>

PaddingWeights(alignment) ==
    IF alignment = "from_end" THEN <<Rat(1, 1), Rat(0, 1)>>
    ELSE IF alignment = "mid" THEN <<Rat(1, 2), Rat(1, 2)>>
    ELSE <<Rat(0, 1), Rat(1, 1)>>

\* out: the integer extent of the source region
OutExtent_NoParity(this_in_shape, source_size, alignment) ==
    IntTrunc(source_size[1], source_size[2])

OutExtent_ParityFlipped(this_in_shape, source_size, alignment) ==
    IF alignment = "mid"
       /\ (this_in_shape - IntTrunc(source_size[1], source_size[2])) % 2 = 0
    THEN IntTrunc(source_size[1], 2 * source_size[2]) * 2
    ELSE IntTrunc(source_size[1], source_size[2])

OutExtent(this_in_shape, source_size, alignment) ==
    IF alignment = "mid"
       /\ (this_in_shape - IntTrunc(source_size[1], source_size[2])) % 2 # 0
    THEN IntTrunc(source_size[1], 2 * source_size[2]) * 2
    ELSE IntTrunc(source_size[1], source_size[2])

\* default no-cropping values for start and end
DefaultWindow_EndInclusive(this_in_shape) == <<0, this_in_shape - 1>>

DefaultWindow(this_in_shape) == <<0, this_in_shape>>

\* rescale_factor of the cropping branch: out / target_shape[dim]
CropRescale_Inverted(out, tgt) == Rat(tgt, out)

CropRescale(out, tgt) == Rat(out, tgt)

\* rescale_factor of the padding branch: this_in_shape / interp_target_shape
PadRescale(this_in_shape, interp_target_shape) ==
    Rat(this_in_shape, interp_target_shape)

\* the crop window of the cropping branch
CropWindow_MidKeepsEnd(this_in_shape, out, alignment) ==
    LET start0 == DefaultWindow(this_in_shape)[1]
        end0 == DefaultWindow(this_in_shape)[2]
        start1 == IF alignment = "mid" THEN IntTrunc(end0 - out, 2) ELSE start0
    IN  IF alignment = "from_end"
        THEN <<end0 - out, end0>>
        ELSE IF alignment = "mid" THEN <<start1, end0>>
        ELSE <<start1, start1 + out>>

CropWindow(this_in_shape, out, alignment) ==
    LET start0 == DefaultWindow(this_in_shape)[1]
        end0 == DefaultWindow(this_in_shape)[2]
        start1 == IF alignment = "mid" THEN IntTrunc(end0 - out, 2) ELSE start0
    IN  IF alignment = "from_end"
        THEN <<end0 - out, end0>>
        ELSE <<start1, start1 + out>>

\* the planner with the statements after the raise of the padding branch
\* run in its place
CalculateCropPad_NoRaise(in_shape, scale_factor, tgt_shape, dim, alignment) ==
    LET this_in_shape == in_shape[dim + 3]
        tgt == tgt_shape[dim + 1]
        sf == scale_factor[dim + 1]
        source_size == Rat(tgt * sf[1], sf[2])
        out == OutExtent(this_in_shape, source_size, alignment)
    IN  IF out > this_in_shape
        THEN LET w == PaddingWeights(alignment)
                 \* int(this_in_shape / scale_factor[dim])
                 int0 == IntTrunc(this_in_shape * sf[2], sf[1])
                 interp_target_shape ==
                     IF alignment = "mid" /\ (int0 - tgt) % 2 # 0
                     THEN int0 - 1 ELSE int0
                 full_pad == tgt - interp_target_shape
             IN  IF interp_target_shape = 0
                 THEN Raised("ZeroDivisionError", scale_factor, out)
                 ELSE [status |-> "ok",
                       start |-> DefaultWindow(this_in_shape)[1],
                       end |-> DefaultWindow(this_in_shape)[2],
                       scale_factor |->
                           [scale_factor EXCEPT
                              ![dim + 1] =
                                  PadRescale(this_in_shape, interp_target_shape)],
                       padding |->
                           <<IntTrunc(w[1][1] * full_pad, w[1][2]),
                             IntTrunc(w[2][1] * full_pad, w[2][2])>>,
                       interp_target_shape |-> interp_target_shape,
                       out |-> out, branch |-> "pad"]
        ELSE LET win == CropWindow(this_in_shape, out, alignment)
             IN  [status |-> "ok", start |-> win[1], end |-> win[2],
                  scale_factor |->
                      [scale_factor EXCEPT ![dim + 1] = CropRescale(out, tgt)],
                  padding |-> <<0, 0>>,
                  interp_target_shape |-> tgt,
                  out |-> out, branch |-> "crop"]

\* dim counts from 0 as in the source; sequences here count from 1
CalculateCropPad(in_shape, scale_factor, tgt_shape, dim, alignment) ==
    LET this_in_shape == in_shape[dim + 3]
        tgt == tgt_shape[dim + 1]
        sf == scale_factor[dim + 1]
        source_size == Rat(tgt * sf[1], sf[2])
        out == OutExtent(this_in_shape, source_size, alignment)
    IN  IF out > this_in_shape
        THEN LET w == PaddingWeights(alignment)
                 \* int(this_in_shape / scale_factor[dim])
                 interp_target_shape == IntTrunc(this_in_shape * sf[2], sf[1])
                 full_pad == tgt - interp_target_shape
             IN  IF alignment = "mid" /\ (interp_target_shape - tgt) % 2 # 0
                 THEN Raised("NotImplementedError", scale_factor, out)
                 ELSE IF interp_target_shape = 0
                 THEN Raised("ZeroDivisionError", scale_factor, out)
                 ELSE [status |-> "ok",
                       start |-> DefaultWindow(this_in_shape)[1],
                       end |-> DefaultWindow(this_in_shape)[2],
                       scale_factor |->
                           [scale_factor EXCEPT
                              ![dim + 1] =
                                  PadRescale(this_in_shape, interp_target_shape)],
                       padding |->
                           <<IntTrunc(w[1][1] * full_pad, w[1][2]),
                             IntTrunc(w[2][1] * full_pad, w[2][2])>>,
                       interp_target_shape |-> interp_target_shape,
                       out |-> out, branch |-> "pad"]
        ELSE LET win == CropWindow(this_in_shape, out, alignment)
             IN  [status |-> "ok", start |-> win[1], end |-> win[2],
                  scale_factor |->
                      [scale_factor EXCEPT ![dim + 1] = CropRescale(out, tgt)],
                  padding |-> <<0, 0>>,
                  interp_target_shape |-> tgt,
                  out |-> out, branch |-> "crop"]

(***************************************************************************)
(* _ZoomNd._fix_scale_factors                                              *)
(*                                                                         *)
(* scale_factors is modelled by its Python type: a Number, an Iterable     *)
(* (list) of entries, or neither (None).  An entry is a Number, a list or  *)
(* 1-d ndarray of numbers, a 0-dim Tensor, or neither (None).              *)
(***************************************************************************)
Number(r) == [kind |-> "Number", val |-> r]
List(v) == [kind |-> "list", vals |-> v]
NdArray(v) == [kind |-> "ndarray", vals |-> v]
Tensor0(r) == [kind |-> "Tensor0", val |-> r]
None == [kind |-> "None"]
Iterable(es) == [kind |-> "Iterable", items |-> es]

\* [sf] * self._N
Broadcast(r, n) == [i \in 1..n |-> r]

\* one pass of the loop body up to the length check: the entry as a vector
\* of self._N factors, or the ValueError
NormalizeEntry(sf, n) ==
    IF sf.kind = "Number"
    THEN [status |-> "ok", sf |-> Broadcast(sf.val, n)]
    ELSE IF sf.kind = "None"
    THEN [status |-> "ValueError", sf |-> <<>>]
    ELSE LET sf_dim == IF sf.kind = "Tensor0" THEN 1 ELSE Len(sf.vals)
             broadcast ==
                 IF sf.kind = "Tensor0" THEN Broadcast(sf.val, n)
                 ELSE IF sf_dim = 1 THEN Broadcast(sf.vals[1], n)
                 ELSE sf.vals
         IN  IF sf_dim # n
             THEN [status |-> "ValueError", sf |-> <<>>]
             ELSE [status |-> "ok", sf |-> broadcast]

\* any(l != t for l, t in zip(last_sf, sf))
Differs(last_sf, sf) ==
    \E i \in 1..Len(last_sf) : i <= Len(sf) /\ ~ RatEq(last_sf[i], sf[i])

\* num after the entry: reset on a new run, then counted
NextNum_NoReset(num, differs) == num + 1

NextNum(num, differs) == (IF differs THEN 0 ELSE num) + 1

\* the loop over the entries, from entry i on; runs are the pairs yielded
RECURSIVE FixLoop(_, _, _, _, _, _)
FixLoop(items, n, i, num, last_sf, runs) ==
    IF i > Len(items)
    THEN [status |-> "ok",
          runs |-> IF i > 1 THEN Append(runs, <<last_sf, num>>) ELSE runs]
    ELSE LET e == NormalizeEntry(items[i], n)
             differs == i > 1 /\ Differs(last_sf, e.sf)
         IN  IF e.status # "ok"
             THEN [status |-> e.status, runs |-> runs]
             ELSE FixLoop(items, n, i + 1, NextNum(num, differs), e.sf,
                          IF differs THEN Append(runs, <<last_sf, num>>)
                          ELSE runs)

\* the spec's reading, for comparison: a flat sequence of numbers is one
\* per-axis vector applied to the whole batch
FixScaleFactors_FlatIsVector(sfs, batch_size, n) ==
    IF sfs.kind = "Iterable"
    THEN IF Len(sfs.items) > 0
            /\ \A i \in 1..Len(sfs.items) : sfs.items[i].kind = "Number"
         THEN IF Len(sfs.items) = n
              THEN [status |-> "ok",
                    runs |-> << <<[i \in 1..n |-> sfs.items[i].val],
                                  batch_size>> >>]
              ELSE [status |-> "ValueError", runs |-> <<>>]
         ELSE FixLoop(sfs.items, n, 1, 0, <<>>, <<>>)
    ELSE IF sfs.kind = "Number"
    THEN [status |-> "ok",
          runs |-> << <<Broadcast(sfs.val, n), batch_size>> >>]
    ELSE [status |-> "ValueError", runs |-> <<>>]

FixScaleFactors(sfs, batch_size, n) ==
    IF sfs.kind = "Iterable"
    THEN FixLoop(sfs.items, n, 1, 0, <<>>, <<>>)
    ELSE IF sfs.kind = "Number"
    THEN [status |-> "ok",
          runs |-> << <<Broadcast(sfs.val, n), batch_size>> >>]
    ELSE [status |-> "ValueError", runs |-> <<>>]

RECURSIVE Sum(_)
Sum(seq) == IF seq = <<>> THEN 0 ELSE Head(seq) + Sum(Tail(seq))

\* torch.split(input_tensor, chunks, dim=0) accepts the sizes only when they
\* add up to the batch dimension
SplitOk(chunk_sizes, batch_size) == Sum(chunk_sizes) = batch_size

NotFixed == [status |-> "none", runs |-> <<>>]
NoFixCall == [scale_factors |-> None, batch_size |-> 0, N |-> 0]

(***************************************************************************)
(* The tensor primitives the module calls, on shapes.                      *)
(***************************************************************************)
Min(a, b) == IF a < b THEN a ELSE b
Max(a, b) == IF a > b THEN a ELSE b

\* extent of data[..., slice(start, end), ...] on an axis of size d
\* (0 <= start, 0 <= end)
SliceLen(d, start, end) == Max(0, Min(end, d) - Min(start, d))

\* F.interpolate(data, size=size): resizes the spatial axes; rejects empty
\* inputs and non-positive sizes
TorchInterpolate(data, size) ==
    IF \/ \E i \in 1..Len(data) : data[i] <= 0
       \/ \E i \in 1..Len(size) : size[i] <= 0
    THEN [status |-> "RuntimeError", shape |-> <<>>]
    ELSE [status |-> "ok", shape |-> <<data[1], data[2]>> \o size]

\* F.pad(data, pad=pad): pad[0:2] goes to the last axis, pad[2:4] to the one
\* before it, and so on
TorchPad(data, pad) ==
    [i \in 1..Len(data) |->
        LET j == Len(data) - i
        IN  IF 2 * j + 2 <= Len(pad)
            THEN data[i] + pad[2 * j + 1] + pad[2 * j + 2]
            ELSE data[i]]

\* torch.cat(interp, dim=0): all axes but the first must agree
TorchCat(shapes) ==
    IF \A i \in 1..Len(shapes) : Tail(shapes[i]) = Tail(shapes[1])
    THEN [status |-> "ok",
          shape |-> <<Sum([i \in 1..Len(shapes) |-> shapes[i][1]])>>
                    \o Tail(shapes[1])]
    ELSE [status |-> "RuntimeError", shape |-> <<>>]

(***************************************************************************)
(* Zoom2d._interpolate and Zoom3d._interpolate                             *)
(***************************************************************************)
Positions2d ==
    {"top_left", "bottom_left", "top_right", "bottom_right", "center"}
Positions3d ==
    {"front_top_left", "back_top_left", "front_bottom_left",
     "back_bottom_left", "front_top_right", "back_top_right",
     "front_bottom_right", "back_bottom_right", "center"}

\* crop_position.startswith("bottom")
StartsWithBottom(p) == p \in {"bottom_left", "bottom_right"}
\* crop_position.endswith("right")
EndsWithRight(p) ==
    p \in {"top_right", "bottom_right", "front_top_right", "back_top_right",
           "front_bottom_right", "back_bottom_right"}
\* crop_position.startswith("back")
StartsWithBack(p) ==
    p \in {"back_top_left", "back_bottom_left", "back_top_right",
           "back_bottom_right"}
\* "_bottom_" in crop_position
ContainsBottom(p) ==
    p \in {"front_bottom_left", "back_bottom_left", "front_bottom_right",
           "back_bottom_right"}

BaseAlignment(p) == IF p = "center" THEN "mid" ELSE "from_start"

InterpolateRaised(exc, at) ==
    [status |-> exc, at |-> at, shape |-> <<>>, scale_factor |-> <<>>]

\* the successive _calculate_crop_pad calls of _interpolate, one per axis
\* from axis dim on, each reading the scale_factor the one before wrote;
\* a call that raises ends them
RECURSIVE PlanAxes(_, _, _, _, _, _)
PlanAxes(data, scale_factor, tgt_shape, alignments, dim, plans) ==
    IF dim >= Len(alignments) \/ (dim > 0 /\ plans[dim].status # "ok")
    THEN plans
    ELSE PlanAxes(data,
                  IF dim = 0 THEN scale_factor ELSE plans[dim].scale_factor,
                  tgt_shape, alignments, dim + 1,
                  Append(plans,
                         CalculateCropPad(
                             data,
                             IF dim = 0 THEN scale_factor
                             ELSE plans[dim].scale_factor,
                             tgt_shape, dim, alignments[dim + 1])))

\* data[:, :, slices], F.interpolate when the cropped shape is not the
\* interpolation target, then F.pad with the pad tuple as the caller built it
CropInterpolatePad(data, plans, pad) ==
    LET cropped == <<data[1], data[2]>>
                   \o [i \in 1..Len(plans) |->
                          SliceLen(data[i + 2], plans[i].start, plans[i].end)]
        size == [i \in 1..Len(plans) |-> plans[i].interp_target_shape]
        resized == IF SubSeq(cropped, 3, Len(cropped)) # size
                   THEN TorchInterpolate(cropped, size)
                   ELSE [status |-> "ok", shape |-> cropped]
    IN  IF resized.status # "ok"
        THEN InterpolateRaised(resized.status, "interpolate")
        ELSE [status |-> "ok", at |-> "",
              shape |-> IF \E i \in 1..Len(plans) : plans[i].padding # <<0, 0>>
                        THEN TorchPad(resized.shape, pad)
                        ELSE resized.shape,
              scale_factor |-> plans[Len(plans)].scale_factor]

\* Zoom2d: plans = <<top_bottom, left_right>>, pad = pad_lr + pad_tb
Finish2d(data, plans) ==
    IF plans[Len(plans)].status # "ok"
    THEN InterpolateRaised(plans[Len(plans)].status, "_calculate_crop_pad")
    ELSE CropInterpolatePad(data, plans,
                            plans[2].padding \o plans[1].padding)

Interpolate2d(data, scale_factor, tgt_shape, position) ==
    IF Len(scale_factor) # 2
    THEN InterpolateRaised("ValueError", "_interpolate")
    ELSE
    LET vertical_alignment ==
            IF StartsWithBottom(position) THEN "from_end"
            ELSE BaseAlignment(position)
        horizontal_alignment ==
            IF EndsWithRight(position) THEN "from_end"
            ELSE BaseAlignment(position)
    IN  Finish2d(data,
                 PlanAxes(data, scale_factor, tgt_shape,
                          <<vertical_alignment, horizontal_alignment>>,
                          0, <<>>))

\* Zoom3d: plans = <<front_back, top_bottom, left_right>>,
\* pad = pad_fb + pad_lr + pad_tb
Finish3d(data, plans) ==
    IF plans[Len(plans)].status # "ok"
    THEN InterpolateRaised(plans[Len(plans)].status, "_calculate_crop_pad")
    ELSE CropInterpolatePad(data, plans,
                            plans[1].padding \o plans[3].padding
                            \o plans[2].padding)

Interpolate3d(data, scale_factor, tgt_shape, position) ==
    IF Len(scale_factor) # 3
    THEN InterpolateRaised("ValueError", "_interpolate")
    ELSE
    LET depth_alignment ==
            IF StartsWithBack(position) THEN "from_end"
            ELSE BaseAlignment(position)
        vertical_alignment ==
            IF ContainsBottom(position) THEN "from_end"
            ELSE BaseAlignment(position)
        horizontal_alignment ==
            IF EndsWithRight(position) THEN "from_end"
            ELSE BaseAlignment(position)
    IN  Finish3d(data,
                 PlanAxes(data, scale_factor, tgt_shape,
                          <<depth_alignment, vertical_alignment,
                            horizontal_alignment>>,
                          0, <<>>))

\* self._interpolate of the module the call is made on
Interpolate(n, data, scale_factor, tgt_shape, position) ==
    IF n = 2 THEN Interpolate2d(data, scale_factor, tgt_shape, position)
    ELSE IF n = 3 THEN Interpolate3d(data, scale_factor, tgt_shape, position)
    ELSE InterpolateRaised("NotImplementedError", "_interpolate")

(***************************************************************************)
(* _ZoomNd.forward                                                         *)
(***************************************************************************)
ForwardRaised(exc, at) ==
    [status |-> exc, at |-> at, shape |-> <<>>, scales |-> <<>>]

NotCalled == ForwardRaised("none", "")

\* 1 / sf for every factor when rescale is set
RescaleVector(scale_f, resc) ==
    IF resc THEN [j \in 1..Len(scale_f) |-> RatInv(scale_f[j])] ELSE scale_f

\* the end of one pass of the loop: the chunk's image and num copies of its
\* scale vector are appended, or the exception of _interpolate leaves forward
LoopAppend(acc, num, r) ==
    IF r.status # "ok"
    THEN [status |-> r.status, at |-> r.at, interp |-> <<>>,
          scales_out |-> <<>>]
    ELSE [status |-> "ok", at |-> "",
          interp |-> Append(acc.interp, r.shape),
          scales_out |-> acc.scales_out \o [j \in 1..num |-> r.scale_factor]]

\* the loop over the runs, from run i on: interp and scales_out, or the
\* exception of the first run that fails
RECURSIVE ForwardLoop(_, _, _, _, _, _, _, _)
ForwardLoop(n, position, input, runs, tgt_shape, resc, i, acc) ==
    IF i > Len(runs) \/ acc.status # "ok" THEN acc
    ELSE ForwardLoop(n, position, input, runs, tgt_shape, resc, i + 1,
             LoopAppend(acc, runs[i][2],
                        Interpolate(n, <<runs[i][2]>> \o Tail(input),
                                    RescaleVector(runs[i][1], resc),
                                    tgt_shape, position)))

\* return torch.cat(interp, dim=0), scales_out
ForwardReturn(loop, cat) ==
    IF loop.status # "ok" THEN ForwardRaised(loop.status, loop.at)
    ELSE IF cat.status # "ok" THEN ForwardRaised(cat.status, "cat")
    ELSE [status |-> "ok", at |-> "", shape |-> cat.shape,
          scales |-> loop.scales_out]

ForwardCat(loop) ==
    ForwardReturn(loop, IF loop.status = "ok" THEN TorchCat(loop.interp)
                        ELSE [status |-> "none", shape |-> <<>>])

\* forward from the zip of the yielded pairs on
ForwardRuns(n, position, input, fix, tgt_shape, resc) ==
    IF fix.status # "ok"
    THEN ForwardRaised(fix.status, "_fix_scale_factors")
    ELSE IF Len(fix.runs) = 0
    THEN ForwardRaised("ValueError", "forward")
    ELSE IF ~ SplitOk([i \in 1..Len(fix.runs) |-> fix.runs[i][2]], input[1])
    THEN ForwardRaised("RuntimeError", "split")
    ELSE ForwardCat(ForwardLoop(n, position, input, fix.runs, tgt_shape,
                                resc, 1,
                                [status |-> "ok", at |-> "", interp |-> <<>>,
                                 scales_out |-> <<>>]))

Forward(n, position, input, sfs, tgt_shape, resc) ==
    IF n = -1 THEN ForwardRaised("RuntimeError", "forward")
    ELSE IF Len(input) # 2 + n THEN ForwardRaised("ValueError", "forward")
    ELSE IF Len(tgt_shape) = 0 THEN ForwardRaised("AttributeError", "forward")
    ELSE ForwardRuns(n, position, input, FixScaleFactors(sfs, input[1], n),
                     tgt_shape, resc)

NoPlan == Raised("none", <<>>, 0)
NoCall == [in_shape |-> <<>>, scale_factor |-> <<>>, target_shape |-> <<>>,
           dim |-> 0, alignment |-> "none"]

(***************************************************************************)
(* The planner as a function of one axis: every input size, target size,   *)
(* scale factor and alignment within the bounds.                           *)
(***************************************************************************)
InitPlan ==
    /\ \E s \in 1..MaxSize, t \in 1..MaxSize, sf \in Scales, a \in Alignments :
          call = [in_shape |-> <<1, 1, s>>, scale_factor |-> <<sf>>,
                  target_shape |-> <<t>>, dim |-> 0, alignment |-> a]
    /\ plan = NoPlan
    /\ fixcall = NoFixCall /\ fixed = NotFixed
    /\ N = 0 /\ crop_position = "" /\ input_tensor = <<>>
    /\ scale_factors = None /\ target_shape = <<>> /\ rescale = FALSE
    /\ result = NotCalled

CalculateCropPadCall ==
    /\ plan = NoPlan
    /\ plan' = CalculateCropPad(call.in_shape, call.scale_factor,
                                call.target_shape, call.dim, call.alignment)
    /\ UNCHANGED <<call, fixVars, forwardVars>>

NextPlan == CalculateCropPadCall

SpecPlan == InitPlan /\ [][NextPlan]_vars

(***************************************************************************)
(* The normalizer as a function: scale_factors of every modelled type.     *)
(***************************************************************************)
FixEntries ==
    {Number(<<1, 1>>), Number(<<2, 1>>), Tensor0(<<2, 1>>), None,
     List(<< <<2, 1>> >>), NdArray(<< <<2, 1>> >>),
     List(<< <<1, 1>>, <<2, 1>> >>), List(<< <<2, 1>>, <<2, 1>> >>),
     NdArray(<< <<2, 1>>, <<1, 1>> >>),
     List(<< <<1, 1>>, <<2, 1>>, <<1, 1>> >>),
     List(<< <<2, 1>>, <<2, 1>>, <<2, 1>> >>)}

RECURSIVE SeqsUpTo(_, _)
SeqsUpTo(S, n) ==
    IF n = 0 THEN {<<>>}
    ELSE LET shorter == SeqsUpTo(S, n - 1)
         IN  shorter \cup {Append(q, x) : q \in {r \in shorter : Len(r) = n - 1},
                                          x \in S}

FixInputs ==
    {Number(<<3, 2>>), None} \cup {Iterable(es) : es \in SeqsUpTo(FixEntries, MaxEntries)}

InitFix ==
    /\ \E sfs \in FixInputs, b \in 1..MaxBatch, n \in {2, 3} :
          fixcall = [scale_factors |-> sfs, batch_size |-> b, N |-> n]
    /\ fixed = NotFixed
    /\ call = NoCall /\ plan = NoPlan
    /\ N = 0 /\ crop_position = "" /\ input_tensor = <<>>
    /\ scale_factors = None /\ target_shape = <<>> /\ rescale = FALSE
    /\ result = NotCalled

FixScaleFactorsCall ==
    /\ fixed = NotFixed
    /\ fixed' = FixScaleFactors(fixcall.scale_factors, fixcall.batch_size,
                                fixcall.N)
    /\ UNCHANGED <<fixcall, planVars, forwardVars>>

NextFix == FixScaleFactorsCall

SpecFix == InitFix /\ [][NextFix]_vars

(***************************************************************************)
(* forward on a Zoom2d or a Zoom3d module.                                 *)
(***************************************************************************)
ForwardScales == {<<1, 2>>, <<1, 1>>, <<2, 1>>}
ForwardEntries ==
    {Number(<<1, 1>>), Number(<<2, 1>>),
     List(<< <<2, 1>>, <<1, 1>> >>),
     List(<< <<1, 1>>, <<2, 1>>, <<1, 1>> >>)}
ForwardScaleFactors ==
    {Number(r) : r \in ForwardScales}
    \cup {Iterable(es) : es \in SeqsUpTo(ForwardEntries, MaxBatch)}

SpatialIn(n) ==
    IF n = 2 THEN {<<4, 4>>, <<3, 6>>} ELSE {<<4, 4, 4>>, <<3, 6, 4>>}
SpatialTarget(n) ==
    IF n = 2 THEN {<<2, 4>>, <<6, 4>>} ELSE {<<2, 4, 4>>, <<6, 4, 2>>}
Positions(n) == IF n = 2 THEN Positions2d ELSE Positions3d

Init ==
    /\ \E n \in {2, 3} :
       \E p \in Positions(n), b \in 1..MaxBatch, d \in SpatialIn(n),
          sfs \in ForwardScaleFactors, t \in SpatialTarget(n),
          r \in BOOLEAN :
          /\ N = n
          /\ crop_position = p
          /\ input_tensor = <<b, 1>> \o d
          /\ scale_factors = sfs
          /\ target_shape = t
          /\ rescale = r
    /\ result = NotCalled
    /\ call = NoCall /\ plan = NoPlan
    /\ fixcall = NoFixCall /\ fixed = NotFixed

ForwardCall ==
    /\ result = NotCalled
    /\ result' = Forward(N, crop_position, input_tensor, scale_factors,
                         target_shape, rescale)
    /\ UNCHANGED <<N, crop_position, input_tensor, scale_factors,
                   target_shape, rescale, planVars, fixVars>>

Next == ForwardCall

Spec == Init /\ [][Next]_vars

(***************************************************************************)
(* forward together with the _calculate_crop_pad calls it makes: besides   *)
(* the whole call, one of the planner calls that forward reaches is kept   *)
(* with its arguments and its outcome.                                     *)
(***************************************************************************)
\* the alignments _interpolate derives from crop_position, in axis order
AxisAlignments(n, position) ==
    IF n = 2
    THEN <<IF StartsWithBottom(position) THEN "from_end"
           ELSE BaseAlignment(position),
           IF EndsWithRight(position) THEN "from_end"
           ELSE BaseAlignment(position)>>
    ELSE <<IF StartsWithBack(position) THEN "from_end"
           ELSE BaseAlignment(position),
           IF ContainsBottom(position) THEN "from_end"
           ELSE BaseAlignment(position),
           IF EndsWithRight(position) THEN "from_end"
           ELSE BaseAlignment(position)>>

\* the arguments of the planner call for axis d of one _interpolate, given
\* the plans of the calls before it
AxisCallArgs(data, scale_f, tgt_shape, alignments, plans, d) ==
    [in_shape |-> data,
     scale_factor |-> SubSeq(IF d = 0 THEN scale_f
                             ELSE plans[d].scale_factor, 1, Len(scale_f)),
     target_shape |-> tgt_shape, dim |-> d,
     alignment |-> alignments[d + 1]]

\* the plans of the _interpolate of run i, up to the first that raises
RunPlans(n, position, input, runs, tgt_shape, resc, i) ==
    PlanAxes(<<runs[i][2]>> \o Tail(input), RescaleVector(runs[i][1], resc),
             tgt_shape, AxisAlignments(n, position), 0, <<>>)

\* forward gets to run i: no earlier run raised
ReachesRun(n, position, input, runs, tgt_shape, resc, i) ==
    ForwardLoop(n, position, input, SubSeq(runs, 1, i - 1), tgt_shape, resc,
                1, [status |-> "ok", at |-> "", interp |-> <<>>,
                    scales_out |-> <<>>]).status = "ok"

\* forward gets to its loop with these runs
ReachesLoop(n, input, fix, tgt_shape) ==
    ~ (\/ n = -1 \/ Len(input) # 2 + n \/ Len(tgt_shape) = 0
       \/ fix.status # "ok" \/ Len(fix.runs) = 0
       \/ ~ SplitOk([i \in 1..Len(fix.runs) |-> fix.runs[i][2]], input[1])
       \/ Len(fix.runs[1][1]) # n)

\* forward makes the planner call for axis d of run i
MakesAxisCall(n, position, input, fix, tgt_shape, resc, i, d) ==
    /\ ReachesLoop(n, input, fix, tgt_shape)
    /\ i <= Len(fix.runs)
    /\ ReachesRun(n, position, input, fix.runs, tgt_shape, resc, i)
    /\ d < Len(RunPlans(n, position, input, fix.runs, tgt_shape, resc, i))

\* the arguments of that call
AxisCallOf(n, position, input, runs, tgt_shape, resc, i, d) ==
    AxisCallArgs(<<runs[i][2]>> \o Tail(input),
                 RescaleVector(runs[i][1], resc), tgt_shape,
                 AxisAlignments(n, position),
                 RunPlans(n, position, input, runs, tgt_shape, resc, i), d)

ZoomScaleFactors ==
    {Number(r) : r \in ForwardScales}
    \cup {Iterable(es) :
            es \in SeqsUpTo({Number(<<1, 1>>), Number(<<2, 1>>)}, MaxBatch)}
ZoomIn(n) ==
    IF n = 2 THEN {<<1, 4>>, <<3, 6>>, <<4, 4>>}
    ELSE {<<4, 1, 4>>, <<3, 6, 4>>, <<4, 4, 4>>}
ZoomTarget(n) ==
    IF n = 2 THEN {<<1, 3>>, <<2, 4>>, <<6, 4>>}
    ELSE {<<2, 1, 3>>, <<2, 4, 4>>, <<6, 4, 2>>}

InitZoom ==
    /\ \E n \in {2, 3} :
       \E p \in Positions(n), b \in 1..MaxBatch, d \in ZoomIn(n),
          sfs \in ZoomScaleFactors, t \in ZoomTarget(n), r \in BOOLEAN :
          /\ N = n
          /\ crop_position = p
          /\ input_tensor = <<b, 1>> \o d
          /\ scale_factors = sfs
          /\ target_shape = t
          /\ rescale = r
    /\ result = NotCalled
    /\ call = NoCall /\ plan = NoPlan
    /\ fixcall = NoFixCall /\ fixed = NotFixed

\* the planner call of one run and one axis
AxisCallWith(fix) ==
    \E i \in 1..MaxBatch, d \in 0..2 :
        /\ MakesAxisCall(N, crop_position, input_tensor, fix, target_shape,
                         rescale, i, d)
        /\ call' = AxisCallOf(N, crop_position, input_tensor, fix.runs,
                              target_shape, rescale, i, d)

AxisCall ==
    /\ plan = NoPlan
    /\ AxisCallWith(FixScaleFactors(scale_factors, input_tensor[1], N))
    /\ plan' = CalculateCropPad(call'.in_shape, call'.scale_factor,
                                call'.target_shape, call'.dim,
                                call'.alignment)
    /\ UNCHANGED <<fixVars, forwardVars>>

NextZoom == ForwardCall \/ AxisCall

SpecZoom == InitZoom /\ [][NextZoom]_vars

(***************************************************************************)
(* Properties of _calculate_crop_pad, stated on one call and its result.   *)
(***************************************************************************)
Planned == plan.status # "none"
Returned == plan.status = "ok"
InSize == call.in_shape[call.dim + 3]
TargetSize == call.target_shape[call.dim + 1]
Requested == call.scale_factor[call.dim + 1]
Corrected == plan.scale_factor[call.dim + 1]
FullPad == TargetSize - plan.interp_target_shape
CallIs(s, t, sf, a) ==
    /\ Planned
    /\ InSize = s /\ TargetSize = t /\ Requested = sf /\ call.alignment = a
\* (this_in_shape - int(source_size)) is odd
OddLeftover ==
    (InSize - IntTrunc(TargetSize * Requested[1], Requested[2])) % 2 # 0

\* C5 as stated: in the padding branch 'from_end' puts the whole shortfall
\* after (pad_before = 0), 'mid' splits it evenly, any other alignment puts
\* it all before; input 4, target 10, scale 1.0, 'from_end' pads (0, 6).
C5_FromEndPadsAfter ==
    /\ (Returned /\ plan.branch = "pad") =>
          plan.padding =
              IF call.alignment = "from_end" THEN <<0, FullPad>>
              ELSE IF call.alignment = "mid"
                   THEN <<FullPad \div 2, FullPad \div 2>>
                   ELSE <<FullPad, 0>>
    /\ CallIs(4, 10, <<1, 1>>, "from_end") =>
          /\ plan.interp_target_shape = 4
          /\ plan.padding = <<0, 6>>
          /\ RatEq(Corrected, <<1, 1>>)

\* C5 amended: in the padding branch 'from_end' puts the whole shortfall
\* target_size - interp_target_size before (pad_after = 0), 'mid' splits it
\* evenly, any other alignment puts it all after (pad_before = 0); input 4,
\* target 10, scale 1.0, 'from_end' gives interp_target_size 4, padding
\* (6, 0) and corrected_scale 1.0.
C5_FromEndPadsBefore ==
    /\ (Returned /\ plan.branch = "pad") =>
          /\ plan.out > InSize
          /\ plan.padding =
                IF call.alignment = "from_end" THEN <<FullPad, 0>>
                ELSE IF call.alignment = "mid"
                     THEN <<FullPad \div 2, FullPad \div 2>>
                     ELSE <<0, FullPad>>
    /\ CallIs(4, 10, <<1, 1>>, "from_end") =>
          /\ Returned
          /\ plan.interp_target_shape = 4
          /\ plan.padding = <<6, 0>>
          /\ RatEq(Corrected, <<1, 1>>)

C5_Witness ==
    /\ CallIs(4, 10, <<1, 1>>, "from_end")
    /\ plan.branch = "pad" /\ plan.padding = <<6, 0>>

\* C6 as stated: under 'mid' with an odd input_size - floor(source_size) the
\* planner lowers out to an even extent that fits the input; input 9,
\* target 5, scale 2.0 crops with out = 8, corrected_scale 8/5, window
\* [0, 8) and no padding.
C6_OutLoweredToFit ==
    /\ (Planned /\ call.alignment = "mid" /\ OddLeftover) =>
          plan.out % 2 = 0 /\ plan.out <= InSize
    /\ CallIs(9, 5, <<2, 1>>, "mid") =>
          /\ Returned /\ plan.branch = "crop" /\ plan.out = 8
          /\ RatEq(Corrected, <<8, 5>>)
          /\ plan.start = 0 /\ plan.end = 8 /\ plan.padding = <<0, 0>>

\* C6 amended: under 'mid' with an odd input_size - floor(source_size) the
\* planner sets out to the largest even integer <= source_size, which may
\* still exceed the input; input 9, target 5, scale 2.0 keeps out = 10 > 9,
\* enters the padding branch and raises the unimplemented-edge-case error,
\* so no plan is returned and the scale slot stays as requested.
C6_OutLargestEvenBelowSource ==
    /\ (Planned /\ call.alignment = "mid" /\ OddLeftover) =>
          /\ plan.out % 2 = 0
          /\ plan.out * Requested[2] <= TargetSize * Requested[1]
          /\ TargetSize * Requested[1] < (plan.out + 2) * Requested[2]
    /\ CallIs(9, 5, <<2, 1>>, "mid") =>
          /\ plan.status = "NotImplementedError"
          /\ plan.out = 10
          /\ Corrected = Requested

C6_Witness ==
    /\ CallIs(9, 5, <<2, 1>>, "mid")
    /\ OddLeftover
    /\ plan.status = "NotImplementedError"

\* C7: on every call that returns, a padding plan has pad_before +
\* pad_after = target_size - interp_target_size, and a cropping plan has
\* crop_end - crop_start = out <= input_size with the window inside
\* [0, input_size).
C7_PadSumAndCropLength ==
    Returned =>
        /\ plan.branch = "pad" =>
              plan.padding[1] + plan.padding[2] = FullPad
        /\ plan.branch = "crop" =>
              /\ plan.end - plan.start = plan.out
              /\ plan.out <= InSize
              /\ 0 <= plan.start /\ plan.end <= InSize

C7_Witness ==
    /\ Returned /\ plan.branch = "crop" /\ call.alignment = "mid"
    /\ plan.start > 0 /\ plan.end < InSize /\ plan.out > 0

\* C8: no returned plan both pads and crops its axis: pad_before +
\* pad_after > 0 and crop_end - crop_start < input_size never hold together.
C8_NeverPadAndCrop ==
    Returned =>
        ~ (/\ plan.padding[1] + plan.padding[2] > 0
           /\ plan.end - plan.start < InSize)

C8_Witness ==
    /\ Returned /\ plan.branch = "pad"
    /\ plan.padding[1] > 0 /\ plan.padding[2] > 0
    /\ plan.end - plan.start = InSize

\* C9 as stated: when scale_factor = target_size / input_size exactly and
\* the extent target_size * scale_factor is an integer, the plan has padding
\* (0, 0) and a crop window covering [0, input_size).
C9_ExactFitTargetOverInput ==
    (/\ Planned
     /\ RatEq(Requested, <<TargetSize, InSize>>)
     /\ (TargetSize * Requested[1]) % Requested[2] = 0) =>
        /\ Returned
        /\ plan.padding = <<0, 0>>
        /\ plan.start = 0 /\ plan.end = InSize

\* C9 amended: when source_size = target_size * scale_factor equals
\* input_size exactly (scale_factor is input_size / target_size), for every
\* alignment the plan has padding (0, 0), a crop window covering
\* [0, input_size), interp_target_size = target_size and the requested
\* scale as corrected scale.
C9_ExactFitSourceEqualsInput ==
    (Planned /\ TargetSize * Requested[1] = InSize * Requested[2]) =>
        /\ Returned
        /\ plan.padding = <<0, 0>>
        /\ plan.start = 0 /\ plan.end = InSize
        /\ plan.interp_target_shape = TargetSize
        /\ RatEq(Corrected, Requested)

C9_Witness ==
    /\ Returned /\ call.alignment = "mid"
    /\ InSize = 9 /\ TargetSize = 6 /\ Requested = <<3, 2>>
    /\ plan.start = 0 /\ plan.end = 9

\* C10 as stated: corrected_scale * target_size, truncated, gives back out
\* in the cropping branch and interp_target_size in the padding branch.
C10_ScaleTimesTargetRecovers ==
    Returned =>
        IntTrunc(Corrected[1] * TargetSize, Corrected[2]) =
            IF plan.branch = "crop" THEN plan.out
            ELSE plan.interp_target_shape

\* C10 amended: in the cropping branch corrected_scale is out / target_size,
\* so corrected_scale * target_size gives back out; in the padding branch
\* corrected_scale is input_size / interp_target_size, so the extent
\* interp_target_size is given back by input_size / corrected_scale (and
\* not by corrected_scale * target_size).  Ratios are exact.
C10_ScaleRecoversExtent ==
    Returned =>
        /\ plan.branch = "crop" =>
              /\ Corrected[2] # 0
              /\ Corrected[1] * TargetSize = plan.out * Corrected[2]
        /\ plan.branch = "pad" =>
              /\ Corrected[1] # 0 /\ Corrected[2] # 0
              /\ InSize * Corrected[2] = plan.interp_target_shape * Corrected[1]

C10_Witness ==
    /\ Returned /\ plan.branch = "pad"
    /\ InSize = 3 /\ TargetSize = 7 /\ plan.interp_target_shape = 3
    /\ IntTrunc(Corrected[1] * TargetSize, Corrected[2]) = 7

\* C11: for positive input size, target size and scale factor and every
\* alignment, every returned plan has crop_start >= 0, pad_before >= 0,
\* pad_after >= 0, interp_target_size > 0 and corrected_scale > 0; the
\* planner never divides by a zero interp_target_size and never yields an
\* empty crop window.
C11_PlanWithinRanges ==
    /\ Planned => plan.status # "ZeroDivisionError"
    /\ Returned =>
          /\ plan.start >= 0
          /\ plan.padding[1] >= 0 /\ plan.padding[2] >= 0
          /\ plan.interp_target_shape > 0
          /\ Corrected[1] > 0 /\ Corrected[2] > 0
          /\ plan.end > plan.start

(***************************************************************************)
(* Properties of _fix_scale_factors, stated on one call and its yields.    *)
(***************************************************************************)
Fixed == fixed.status # "none"
Yielded == fixed.status = "ok"
FixItems == fixcall.scale_factors.items
IsSequence == fixcall.scale_factors.kind = "Iterable"
IsNumber == fixcall.scale_factors.kind = "Number"
RunLengths == [i \in 1..Len(fixed.runs) |-> fixed.runs[i][2]]
VecEq(u, v) ==
    /\ Len(u) = Len(v)
    /\ \A i \in 1..Len(u) : RatEq(u[i], v[i])

\* items is a flat sequence of n numbers
FlatNumbersOf(items, n) ==
    /\ Len(items) = n
    /\ \A i \in 1..n : items[i].kind = "Number"

\* the per-sample vectors the runs stand for, in order
RECURSIVE Expand(_)
Expand(runs) ==
    IF runs = <<>> THEN <<>>
    ELSE [i \in 1..Head(runs)[2] |-> Head(runs)[1]] \o Expand(Tail(runs))

\* the length the spec attributes to an entry (a scalar counts as 1)
EntryLen(e) == IF e.kind \in {"Number", "Tensor0"} THEN 1 ELSE Len(e.vals)
\* the vector the spec attributes to an entry of length 1 or N
EntryVector(e, n) ==
    IF e.kind \in {"Number", "Tensor0"} THEN Broadcast(e.val, n)
    ELSE IF Len(e.vals) = 1 THEN Broadcast(e.vals[1], n)
    ELSE e.vals

\* C2 as stated: for a number, a flat sequence of N numbers and a per-sample
\* sequence alike, and every batch size B, the yielded run lengths sum to B,
\* so the batch can be split by them.
C2_RunLengthsSumToBatch ==
    (/\ Yielded
     /\ \/ IsNumber
        \/ IsSequence /\ FlatNumbersOf(FixItems, fixcall.N)
        \/ IsSequence /\ Len(FixItems) = fixcall.batch_size) =>
        /\ Sum(RunLengths) = fixcall.batch_size
        /\ SplitOk(RunLengths, fixcall.batch_size)

\* C2 amended: a single number yields one pair of run length B.  A sequence
\* is always read per sample (a flat sequence of N numbers is N per-sample
\* scalars, not one vector for the whole batch): the yielded runs are
\* non-empty, in batch order, expand to the normalized entries, and their
\* run lengths sum to the number of entries.  So the batch can be split by
\* them exactly when scale_factors is a number or has B entries.
C2_RunLengthsSumToEntries ==
    Yielded =>
        /\ IsNumber =>
              /\ Len(fixed.runs) = 1
              /\ Sum(RunLengths) = fixcall.batch_size
        /\ IsSequence =>
              /\ Sum(RunLengths) = Len(FixItems)
              /\ \A i \in 1..Len(RunLengths) : RunLengths[i] >= 1
              /\ Len(Expand(fixed.runs)) = Len(FixItems)
              /\ \A i \in 1..Len(FixItems) :
                    VecEq(Expand(fixed.runs)[i],
                          NormalizeEntry(FixItems[i], fixcall.N).sf)
              /\ \A i \in 1..(Len(fixed.runs) - 1) :
                    ~ VecEq(fixed.runs[i][1], fixed.runs[i + 1][1])
        /\ SplitOk(RunLengths, fixcall.batch_size) <=>
              (IsNumber \/ Len(FixItems) = fixcall.batch_size)

C2_Witness ==
    /\ Yielded /\ IsSequence /\ fixcall.N = 2 /\ fixcall.batch_size = 3
    /\ FixItems = <<Number(<<2, 1>>), Number(<<2, 1>>)>>
    /\ fixed.runs = << << << <<2, 1>>, <<2, 1>> >>, 2 >> >>

\* C3: a per-sample entry is rejected if and only if its length is neither
\* 1 nor N; a scalar or length-1 entry is broadcast to N equal components
\* and a length-N entry is taken unchanged.
C3_RejectedIffLengthNot1OrN ==
    (/\ Fixed /\ IsSequence
     /\ \A i \in 1..Len(FixItems) : FixItems[i].kind # "None") =>
        /\ fixed.status = "ValueError" <=>
              \E i \in 1..Len(FixItems) :
                  EntryLen(FixItems[i]) \notin {1, fixcall.N}
        /\ Yielded =>
              \A i \in 1..Len(FixItems) :
                  VecEq(Expand(fixed.runs)[i],
                        EntryVector(FixItems[i], fixcall.N))

(***************************************************************************)
(* Properties of forward.                                                  *)
(***************************************************************************)
Called == result.status # "none"
ForwardReturned == result.status = "ok"
Batch == input_tensor[1]
\* scale_factors is a flat sequence of n numbers
FlatNumbers(n) ==
    /\ scale_factors.kind = "Iterable"
    /\ Len(scale_factors.items) = n
    /\ \A i \in 1..n : scale_factors.items[i].kind = "Number"
\* some per-sample entry of scale_factors is a sequence of n numbers
HasEntryOfLen(n) ==
    /\ scale_factors.kind = "Iterable"
    /\ \E i \in 1..Len(scale_factors.items) :
          /\ scale_factors.items[i].kind = "list"
          /\ Len(scale_factors.items[i].vals) = n

\* C1: whenever forward returns, on Zoom2d and on Zoom3d, every spatial
\* dimension of the output equals the corresponding entry of target_shape
\* (each axis receives its own pad_before / pad_after).
C1_OutputHasTargetShape ==
    ForwardReturned =>
        /\ Len(result.shape) = N + 2
        /\ \A i \in 1..N : result.shape[i + 2] = target_shape[i]

\* C4 as stated: forward on a 2D module with a 3-element sequence as
\* scale_factors raises for every batch size and returns nothing.
C4_ThreeElementsAlwaysRaise ==
    (Called /\ N = 2 /\ FlatNumbers(3)) =>
        /\ result.status # "ok"
        /\ result.shape = <<>> /\ result.scales = <<>>

\* C4 amended: on a 2D module a sequence of 3 numbers is read as three
\* per-sample scalars; forward raises (the batch cannot be split into the 3
\* runs' lengths) for every batch size other than 3 and returns nothing,
\* while for batch size 3 no shape error is raised and a returning call
\* gives 3 scale vectors of length 2.  A 3-element sequence given as a
\* per-sample entry raises ValueError for every batch size.
C4_ThreeNumbersRaiseUnlessBatchIs3 ==
    /\ (Called /\ N = 2 /\ FlatNumbers(3) /\ Batch # 3) =>
          /\ result.status = "RuntimeError" /\ result.at = "split"
          /\ result.shape = <<>> /\ result.scales = <<>>
    /\ (Called /\ N = 2 /\ FlatNumbers(3) /\ Batch = 3) =>
          /\ result.at \notin {"_fix_scale_factors", "forward", "split",
                               "_interpolate"}
          /\ ForwardReturned =>
                /\ Len(result.scales) = 3
                /\ \A i \in 1..3 : Len(result.scales[i]) = 2
                /\ result.shape[1] = 3
    /\ (Called /\ N = 2 /\ HasEntryOfLen(3)) =>
          /\ result.status = "ValueError"
          /\ result.at = "_fix_scale_factors"
          /\ result.shape = <<>> /\ result.scales = <<>>

C4_Witness ==
    /\ ForwardReturned /\ N = 2 /\ FlatNumbers(3) /\ Batch = 3
    /\ Len(result.scales) = 3
    /\ ~ VecEq(result.scales[1], result.scales[3])

\* C12: in the padding branch under 'mid' alignment with an odd shortfall
\* between interp_target_size and target_size, _calculate_crop_pad raises
\* NotImplementedError instead of returning a plan, the scale vector slot of
\* that axis is left unwritten, and forward raises the same error and
\* returns nothing; in every other padding-branch case with
\* interp_target_size > 0 a plan is returned.
C12_MidOddShortfallRaises ==
    (Planned /\ plan.out > InSize) =>
        IF /\ call.alignment = "mid"
           /\ (TargetSize - IntTrunc(InSize * Requested[2], Requested[1])) % 2
                 # 0
        THEN /\ plan.status = "NotImplementedError"
             /\ plan.scale_factor = call.scale_factor
             /\ Called => /\ result.status = "NotImplementedError"
                          /\ result.at = "_calculate_crop_pad"
                          /\ result.shape = <<>> /\ result.scales = <<>>
        ELSE IntTrunc(InSize * Requested[2], Requested[1]) > 0 =>
                 /\ Returned /\ plan.branch = "pad"
                 /\ plan.interp_target_shape
                       = IntTrunc(InSize * Requested[2], Requested[1])

C12_Witness ==
    /\ Called /\ Planned /\ plan.out > InSize
    /\ call.alignment = "mid" /\ call.dim > 0
    /\ (TargetSize - IntTrunc(InSize * Requested[2], Requested[1])) % 2 # 0
    /\ plan.status = "NotImplementedError"
    /\ result.status = "NotImplementedError"

====
